---- MODULE Spec2Model ----
(***************************************************************************)
(* A model of the contiguous concatenation kernel cat_contig_kernel_impl   *)
(* in its two variants (the parallel memcpy variant and the sequential     *)
(* scalar/Vec256 variant) and of the ModuleDict container.                 *)
(*                                                                         *)
(* Memory is modelled per element: a buffer is a sequence of elements,     *)
(* a pointer is an element offset from the buffer's base.  Offsets are     *)
(* 0-based as in the code; Load and Store translate them to TLA+ indices.  *)
(***************************************************************************)
EXTENDS Integers, Sequences, FiniteSets, TLC

(***************************************************************************)
(* Bounds of the model.                                                    *)
(***************************************************************************)
\* largest number of tensors in the TensorList
MaxInputs == 2
\* largest number of outer groups of the result
MaxOuter == 3
\* largest size(dim)*stride(dim) of the result given to the parallel variant
MaxStride == 4
\* largest size(dim)*stride(dim) of the result given to the sequential variant
MaxStrideSeq == 9
\* largest number of threads the parallel region may run with
MaxThreads == 2
\* at::internal::GRAIN_SIZE. The library's value is 32768; it is scaled down
\* so that ranges longer than the grain occur within MaxOuter.
GRAIN_SIZE == 3

VARIABLES
    variant,              \* "parallel" (part_000) or "sequential" (part_001)
    scalar_type,          \* the type AT_DISPATCH_FLOATING_TYPES selected
    tensors,              \* the TensorList: sequence of [inner, data]
    result_group,         \* result.size(dim) * result.stride(dim)
    result_numel,         \* result.numel()
    result,               \* the result's buffer
    pc,                   \* "init", "dispatch", "running", "done", "crashed"
    outer,                \* local outer
    adjusted_grain_size,  \* local adjusted_grain_size (parallel variant)
    inputs,               \* std::vector<InputMeta> inputs (sequential variant)
    tasks,                \* the running invocations of the loop body
    writes,               \* history: every store made, <<position, i, j>>
    starts,               \* history: every run begun, <<i, j, output offset>>
    visits,               \* history: how often the loop body ran for each i
    cursors,              \* history: the write cursor when the copy of outer
                          \* index i begins and when its last input is copied
    evals,                \* history: how often each partition parameter was
                          \* computed, before the loop and inside its body
    modules_,             \* ModuleDictImpl::modules_
    children_,            \* Module::children_ of the ModuleDict
    heap,                 \* the Module objects allocated so far
    constructed,          \* "no", "yes", or "failed" when the constructor threw
    last,                 \* the last ModuleDict operation and its outcome
    given,                \* history: what the callers passed for the keys held
    loop                  \* the loop of part_001 line 39 on its own: i, outer,
                          \* position, and the values the body has run with

catVars == <<variant, scalar_type, tensors, result_group, result_numel, result,
             pc, outer, adjusted_grain_size, inputs, tasks, writes, starts, visits,
             cursors, evals>>
dictVars == <<modules_, children_, heap, constructed, last, given>>
vars == <<variant, scalar_type, tensors, result_group, result_numel, result,
          pc, outer, adjusted_grain_size, inputs, tasks, writes, starts, visits,
          cursors, evals, modules_, children_, heap, constructed, last, given, loop>>

Min(a, b) == IF a < b THEN a ELSE b

RECURSIVE SumSeq(_)
SumSeq(s) == IF s = <<>> THEN 0 ELSE Head(s) + SumSeq(Tail(s))

(***************************************************************************)
(* Memory.                                                                 *)
(***************************************************************************)
\* the content of an element of the result that was never stored to
Garbage == <<>>

\* the content of element idx of tensor j (0-based): every element of every
\* input is distinct, so a copy from the wrong place is visible
InputValue(j, idx) == <<j, idx>>

\* buf[p]; a read outside the buffer yields an unspecified value
Load(buf, p) == IF p \in 0..(Len(buf) - 1) THEN buf[p + 1] ELSE Garbage

\* buf[p] = v; a store outside the buffer leaves the buffer as it is (the
\* store itself is recorded in writes)
Store(buf, p, v) == IF p \in 0..(Len(buf) - 1) THEN [buf EXCEPT ![p + 1] = v] ELSE buf

\* sizeof(scalar_t) for the types of AT_DISPATCH_FLOATING_TYPES
SizeOf(ty) == IF ty = "double" THEN 8 ELSE 4

\* Vec256<scalar_t>::size(): 32 bytes of lanes
VecSize(ty) == 32 \div SizeOf(ty)

ninputs == Len(tensors)

\* t.size(dim) * t.stride(dim) of tensor j (0-based)
LocalInner(j) == tensors[j + 1].inner

(***************************************************************************)
(* The calls the model starts from.                                        *)
(***************************************************************************)
RECURSIVE InnerLists(_, _)
\* the lists of at most n inner sizes whose sum is at most total
InnerLists(n, total) ==
    IF n = 0 THEN {<<>>}
    ELSE {<<>>} \cup
         UNION {{<<a>> \o rest : rest \in InnerLists(n - 1, total - a)} : a \in 0..total}

\* the tensor of inner size n at list position j, for o outer groups
MakeTensor(j, n, o) ==
    [inner |-> n, data |-> [idx \in 1..(o * n) |-> InputValue(j, idx - 1)]]

MakeTensors(inners, o) ==
    [p \in 1..Len(inners) |-> MakeTensor(p - 1, inners[p], o)]

\* The result's size(dim)*stride(dim) for a list of inputs: the sum of the
\* inputs' inner sizes; for an empty list the result has any shape.
GroupsFor(inners, maxStride) ==
    IF inners = <<>> THEN 0..maxStride ELSE {SumSeq(inners)}

StrideBound(v) == IF v = "parallel" THEN MaxStride ELSE MaxStrideSeq

NoTask == <<>>

\* the record of an operation on the ModuleDict: what was called, with which
\* overload and key, whether it returned or threw, size() and contains(key)
\* before it, the number of entries given (constructors), the module
\* returned (pop)
Op(op, overload, key, status, size_before, contained_before, n, returned) ==
    [op |-> op, overload |-> overload, key |-> key, status |-> status,
     size_before |-> size_before, contained_before |-> contained_before,
     n |-> n, returned |-> returned]

NoOp == Op("none", "none", "", "ok", 0, FALSE, 0, 0)

\* no partition parameter of a call over n tensors has been computed
NoEvals(n) ==
    [outer |-> 0, output_stride |-> 0,
     before |-> [p \in 1..n |-> 0], inside |-> [p \in 1..n |-> 0]]

InitDict ==
    /\ modules_ = <<>>
    /\ children_ = <<>>
    /\ heap = {}
    /\ constructed = "no"
    /\ last = NoOp
    /\ given = {}

InitCat ==
    /\ variant \in {"parallel", "sequential"}
    /\ scalar_type \in {"double", "float"}
    /\ \E inners \in InnerLists(MaxInputs, StrideBound(variant)), o \in 0..MaxOuter :
         \E g \in GroupsFor(inners, StrideBound(variant)) :
            /\ tensors = MakeTensors(inners, o)
            /\ result_group = g
            \* a result of zero extent along dim has no elements
            /\ result_numel = o * g
            /\ result = [p \in 1..(o * g) |-> Garbage]
    /\ pc = "init"
    /\ outer = 0
    /\ adjusted_grain_size = 0
    /\ inputs = <<>>
    /\ tasks = NoTask
    /\ writes = {}
    /\ starts = {}
    /\ visits = [i \in 0..MaxOuter |-> 0]
    /\ cursors = {}
    /\ evals = NoEvals(ninputs)

\* the loop of part_001 line 39 is not looked at on its own
NoLoop == [i |-> 0, outer |-> 0, pc |-> "idle", seen |-> <<>>, wide |-> FALSE]

Init == InitCat /\ InitDict /\ loop = NoLoop

\* no kernel call is under way
CatIdle ==
    /\ variant = "parallel"
    /\ scalar_type = "double"
    /\ tensors = <<>>
    /\ result_group = 0
    /\ result_numel = 0
    /\ result = <<>>
    /\ pc = "idle"
    /\ outer = 0
    /\ adjusted_grain_size = 0
    /\ inputs = <<>>
    /\ tasks = NoTask
    /\ writes = {}
    /\ starts = {}
    /\ visits = [i \in 0..MaxOuter |-> 0]
    /\ cursors = {}
    /\ evals = NoEvals(0)

InitModuleDict == CatIdle /\ InitDict /\ loop = NoLoop

(***************************************************************************)
(* The parallel variant: cat_contig_kernel_impl of part_000.               *)
(***************************************************************************)
\* the grain grows with the work of an outer index
AdjustedGrainSize_Times(output_stride) == GRAIN_SIZE * output_stride

\* line 21: adjusted_grain_size = at::internal::GRAIN_SIZE / output_stride
AdjustedGrainSize(output_stride) == GRAIN_SIZE \div output_stride

\* lines 15-21: the scalars computed before the loop. Both divisions are
\* integer divisions by result.size(dim) * result.stride(dim); by zero the
\* behaviour is undefined: the call traps, or goes on with any values.
Call ==
    /\ pc = "init"
    /\ variant = "parallel"
    /\ IF result_group = 0
       THEN \/ /\ pc' = "crashed"
               /\ UNCHANGED <<outer, adjusted_grain_size, evals>>
            \/ /\ pc' = "dispatch"
               /\ outer' \in 0..MaxOuter
               /\ adjusted_grain_size' \in 0..GRAIN_SIZE
               /\ evals' = [evals EXCEPT !.outer = @ + 1, !.output_stride = @ + 1]
       ELSE /\ pc' = "dispatch"
            /\ outer' = result_numel \div result_group
            /\ adjusted_grain_size' = AdjustedGrainSize(result_group)
            /\ evals' = [evals EXCEPT !.outer = @ + 1, !.output_stride = @ + 1]
    /\ UNCHANGED <<variant, scalar_type, tensors, result_group, result_numel, result,
                   inputs, tasks, writes, starts, visits, cursors>>
    /\ UNCHANGED <<dictVars, loop>>

\* the range given to at::parallel_for starts one index late
ParallelForArgs_FromOne == [begin |-> 1, end |-> outer, grain_size |-> adjusted_grain_size]

\* line 36: the arguments of at::parallel_for
ParallelForArgs == [begin |-> 0, end |-> outer, grain_size |-> adjusted_grain_size]

divup(x, y) == (x + y - 1) \div y

\* at::parallel_for's split of [begin, end) among nthreads threads: thread
\* tid takes [begin + tid*chunk_size, min(end, begin + (tid+1)*chunk_size))
\* when that is not empty, where no chunk is smaller than grain_size unless
\* it is the last.
ChunkRanges(begin, end, grain_size, nthreads) ==
    LET n == end - begin
        num_threads == IF grain_size > 0 THEN Min(nthreads, divup(n, grain_size))
                       ELSE nthreads
        chunk_size == divup(n, num_threads)
        used == {tid \in 0..(nthreads - 1) : begin + tid * chunk_size < end}
    IN [t \in 1..Cardinality(used) |->
           [start |-> begin + (t - 1) * chunk_size,
            end |-> Min(end, begin + t * chunk_size)]]

\* a fresh invocation loop_nd(start, end): line 25, i = start
NewTask(r) ==
    [start |-> r.start, end |-> r.end, i |-> r.start, j |-> 0, k |-> 0,
     output_ptr |-> 0, input_ptr |-> 0, local_inner |-> 0, nbytes |-> 0,
     pc |-> "outer"]

\* at::parallel_for(begin, end, grain_size, f): returns at once on an empty
\* range, runs f(begin, end) on the calling thread when the range is not
\* longer than the grain or the caller already runs in a parallel region,
\* and otherwise opens a parallel region of any number of threads.
ParallelFor ==
    /\ pc = "dispatch"
    /\ variant = "parallel"
    /\ LET a == ParallelForArgs
       IN IF a.begin >= a.end
          THEN /\ pc' = "done"
               /\ tasks' = NoTask
          ELSE /\ pc' = "running"
               /\ \E nthreads \in 1..MaxThreads :
                     /\ (a.end - a.begin <= a.grain_size) => nthreads = 1
                     /\ tasks' = [t \in DOMAIN ChunkRanges(a.begin, a.end, a.grain_size, nthreads) |->
                                     NewTask(ChunkRanges(a.begin, a.end, a.grain_size, nthreads)[t])]
    /\ UNCHANGED <<variant, scalar_type, tensors, result_group, result_numel, result,
                   outer, adjusted_grain_size, inputs, writes, starts, visits,
                   cursors, evals>>
    /\ UNCHANGED <<dictVars, loop>>

\* the write cursor is computed from the index within the task's sub-range
OutputStart_Relative(T) == (T.i - T.start) * result_group

\* lines 26-27: output_ptr = result.data_ptr() + i * output_stride
OutputStart(T) == T.i * result_group

\* the read cursor advances by the output's group stride
InputStart_Strided(T, local_inner) == T.i * result_group

\* line 30: input_ptr = t.data_ptr() + i * local_inner
InputStart(T, local_inner) == T.i * local_inner

\* line 31: the byte count given to memcpy
MemcpyBytes(local_inner) == local_inner * SizeOf(scalar_type)

\* the write cursor is not advanced after a run
AdvanceOutput_Stuck(T) == T.output_ptr

\* line 32: output_ptr += local_inner
AdvanceOutput(T) == T.output_ptr + T.local_inner

\* the outer loop steps over every second index
NextIndex_Skip(T) == T.i + 2

\* line 25: ++i
NextIndex(T) == T.i + 1

\* Lines 25-30 and 32: the loop control of loop_nd, from the task's position
\* to its next memcpy of at least one byte or to its return. It reads and
\* writes the task's own locals only. S is [task, starts, visits, cursors,
\* evals]:
\*   "outer"   line 25, the test i < end, and lines 26-27 in the body;
\*   "tensor"  line 28, the next tensor of the list, with lines 29-31 up to
\*             the call of memcpy (a memcpy of zero bytes is complete at
\*             once, with line 32 after it); after the last tensor, ++i.
RECURSIVE LoopNd(_)
LoopNdFrom(S) ==
    LET T == S.task
    IN IF T.pc = "outer"
       THEN IF T.i < T.end
            THEN LoopNd([S EXCEPT !.task = [T EXCEPT !.output_ptr = OutputStart(T),
                                                     !.j = 0, !.pc = "tensor"],
                                  !.visits = [S.visits EXCEPT ![T.i] = @ + 1],
                                  !.cursors = @ \cup {<<T.i, "begin", OutputStart(T)>>}])
            ELSE [S EXCEPT !.task = [T EXCEPT !.pc = "returned"]]
       ELSE IF T.pc = "tensor"
       THEN IF T.j < ninputs
            THEN LET li == LocalInner(T.j)
                     U == [T EXCEPT !.local_inner = li, !.input_ptr = InputStart(T, li),
                                    !.nbytes = MemcpyBytes(li), !.k = 0]
                     R == [S EXCEPT !.starts = S.starts \cup {<<T.i, T.j, T.output_ptr>>},
                                    !.evals.inside[T.j + 1] = @ + 1]
                 IN IF U.nbytes > 0
                    THEN [R EXCEPT !.task = [U EXCEPT !.pc = "memcpy"]]
                    ELSE LoopNd([R EXCEPT !.task = [U EXCEPT !.output_ptr = AdvanceOutput(U),
                                                             !.j = T.j + 1]])
            ELSE LoopNd([S EXCEPT !.task = [T EXCEPT !.i = NextIndex(T), !.pc = "outer"],
                                  !.cursors = @ \cup {<<T.i, "end", T.output_ptr>>}])
       ELSE S

\* LoopNdFrom at the value of S0
LoopNd(S0) == CHOOSE R \in {LoopNdFrom(S) : S \in {S0}} : TRUE

\* a thread enters loop_nd(start, end) and runs to its first memcpy
Enter(t) ==
    /\ pc = "running"
    /\ variant = "parallel"
    /\ t \in DOMAIN tasks
    /\ tasks[t].pc = "outer"
    /\ \E R \in {LoopNd([task |-> tasks[t], starts |-> starts, visits |-> visits,
                          cursors |-> cursors, evals |-> evals])} :
          /\ tasks' = [tasks EXCEPT ![t] = R.task]
          /\ starts' = R.starts
          /\ visits' = R.visits
          /\ cursors' = R.cursors
          /\ evals' = R.evals
    /\ UNCHANGED <<variant, scalar_type, tensors, result_group, result_numel, result,
                   pc, outer, adjusted_grain_size, inputs, writes>>
    /\ UNCHANGED <<dictVars, loop>>

\* memcpy with source and destination exchanged
MemcpyElement_Swapped(T) ==
    [result |-> result,
     tensors |-> [tensors EXCEPT ![T.j + 1].data =
                     Store(@, T.input_ptr + T.k, Load(result, T.output_ptr + T.k))],
     stored |-> {}]

\* line 31: memcpy(output_ptr, input_ptr, nbytes) moves element k from the
\* tensor's buffer to the result's buffer
MemcpyElement(T) ==
    [result |-> Store(result, T.output_ptr + T.k,
                      Load(tensors[T.j + 1].data, T.input_ptr + T.k)),
     tensors |-> tensors,
     stored |-> {<<T.output_ptr + T.k, T.i, T.j>>}]

\* one element of the memcpy of line 31; after its last element, line 32 and
\* the loop control up to the next memcpy
Memcpy(t) ==
    /\ pc = "running"
    /\ variant = "parallel"
    /\ t \in DOMAIN tasks
    /\ tasks[t].pc = "memcpy"
    /\ \E T \in {tasks[t]} :
       \E m \in {MemcpyElement(T)} :
       \E R \in {IF (T.k + 1) * SizeOf(scalar_type) < T.nbytes
                 THEN [task |-> [T EXCEPT !.k = T.k + 1], starts |-> starts, visits |-> visits,
                       cursors |-> cursors, evals |-> evals]
                 ELSE LoopNd([task |-> [T EXCEPT !.output_ptr = AdvanceOutput(T), !.j = T.j + 1,
                                                 !.k = 0, !.pc = "tensor"],
                              starts |-> starts, visits |-> visits,
                              cursors |-> cursors, evals |-> evals])} :
          /\ result' = m.result
          /\ tensors' = m.tensors
          /\ writes' = writes \cup m.stored
          /\ tasks' = [tasks EXCEPT ![t] = R.task]
          /\ starts' = R.starts
          /\ visits' = R.visits
          /\ cursors' = R.cursors
          /\ evals' = R.evals
    /\ UNCHANGED <<variant, scalar_type, result_group, result_numel,
                   pc, outer, adjusted_grain_size, inputs>>
    /\ UNCHANGED <<dictVars, loop>>

\* at::parallel_for returns when every invocation of f has returned, and
\* cat_contig_kernel_impl returns with it (line 37)
Join ==
    /\ pc = "running"
    /\ variant = "parallel"
    /\ \A t \in DOMAIN tasks : tasks[t].pc = "returned"
    /\ pc' = "done"
    /\ UNCHANGED <<variant, scalar_type, tensors, result_group, result_numel, result,
                   outer, adjusted_grain_size, inputs, tasks, writes, starts, visits,
                   cursors, evals>>
    /\ UNCHANGED <<dictVars, loop>>

(***************************************************************************)
(* The sequential variant: cat_contig_kernel_impl of part_001.             *)
(***************************************************************************)
\* InputMeta's constructor, lines 15-17: inner_size = t.size(dim) * inner,
\* with inner = tensor.stride(dim) at line 34
InputMeta(j) == [data_ptr |-> j, inner_size |-> LocalInner(j)]

\* the computations of lines 24 and 33-35: outer with the result's
\* size(dim) * stride(dim) in it, and one InputMeta for every tensor
SeqEvals ==
    [evals EXCEPT !.outer = @ + 1, !.output_stride = @ + 1,
                  !.before = [p \in 1..ninputs |-> @[p] + 1]]

\* lines 24-38: outer, the InputMeta of every tensor, result_ptr = result_data
\* and i = 0. The division at line 24 is by result.size(dim) *
\* result.stride(dim); by zero the behaviour is undefined.
SeqCall ==
    /\ pc = "init"
    /\ variant = "sequential"
    /\ IF result_group = 0
       THEN \/ /\ pc' = "crashed"
               /\ UNCHANGED <<outer, inputs, tasks, evals>>
            \/ /\ pc' = "running"
               /\ outer' \in 0..MaxOuter
               /\ inputs' = [p \in 1..ninputs |-> InputMeta(p - 1)]
               /\ evals' = SeqEvals
               /\ tasks' = <<[i |-> 0, j |-> 0, result_ptr |-> 0, input_ptr |-> 0,
                              local_inner |-> 0, pc |-> "outer"]>>
       ELSE /\ pc' = "running"
            /\ outer' = result_numel \div result_group
            /\ inputs' = [p \in 1..ninputs |-> InputMeta(p - 1)]
            /\ evals' = SeqEvals
            /\ tasks' = <<[i |-> 0, j |-> 0, result_ptr |-> 0, input_ptr |-> 0,
                           local_inner |-> 0, pc |-> "outer"]>>
    /\ UNCHANGED <<variant, scalar_type, tensors, result_group, result_numel, result,
                   adjusted_grain_size, writes, starts, visits, cursors>>
    /\ UNCHANGED <<dictVars, loop>>

\* line 39: the test i < outer; line 40: j = 0. When the test fails the
\* function returns (line 60). i is an int compared with the int64_t outer;
\* within MaxOuter it does not overflow.
SeqLoopOuter ==
    /\ pc = "running"
    /\ variant = "sequential"
    /\ tasks[1].pc = "outer"
    /\ LET T == tasks[1]
       IN IF T.i < outer
          THEN /\ tasks' = <<[T EXCEPT !.j = 0, !.pc = "input"]>>
               /\ visits' = [visits EXCEPT ![T.i] = @ + 1]
               /\ cursors' = cursors \cup {<<T.i, "begin", T.result_ptr>>}
               /\ pc' = pc
          ELSE /\ tasks' = <<[T EXCEPT !.pc = "returned"]>>
               /\ pc' = "done"
               /\ UNCHANGED <<visits, cursors>>
    /\ UNCHANGED <<variant, scalar_type, tensors, result_group, result_numel, result,
                   outer, adjusted_grain_size, inputs, writes, starts, evals>>
    /\ UNCHANGED <<dictVars, loop>>

\* line 42: input_ptr = inputs[j].data_ptr + i * local_inner
SeqInputStart(T, local_inner) == T.i * local_inner

\* line 42: the buffer inputs[j].data_ptr points to
InputData(j) == tensors[inputs[j + 1].data_ptr + 1].data

\* line 43: the test that selects the element-by-element loop
UseScalarLoop(local_inner) == local_inner < VecSize(scalar_type)

\* line 40: the test j < ninputs, lines 41-43; after the last input, ++i
SeqLoopInput ==
    /\ pc = "running"
    /\ variant = "sequential"
    /\ tasks[1].pc = "input"
    /\ LET T == tasks[1]
       IN IF T.j < Len(inputs)
          THEN LET li == inputs[T.j + 1].inner_size
               IN /\ tasks' = <<[T EXCEPT !.local_inner = li,
                                         !.input_ptr = SeqInputStart(T, li),
                                         !.pc = IF UseScalarLoop(li) THEN "scalar" ELSE "vec"]>>
                  /\ starts' = starts \cup {<<T.i, T.j, T.result_ptr>>}
                  /\ UNCHANGED cursors
          ELSE /\ tasks' = <<[T EXCEPT !.i = T.i + 1, !.pc = "outer"]>>
               /\ cursors' = cursors \cup {<<T.i, "end", T.result_ptr>>}
               /\ UNCHANGED starts
    /\ UNCHANGED <<variant, scalar_type, tensors, result_group, result_numel, result,
                   pc, outer, adjusted_grain_size, inputs, writes, visits, evals>>
    /\ UNCHANGED <<dictVars, loop>>

\* the buffer after the stores <<position, value>> of a sequence from its
\* n-th on, in order
RECURSIVE ApplyStoresFrom(_, _, _)
ApplyStoresFrom(buf, stores, n) ==
    IF n > Len(stores) THEN buf
    ELSE ApplyStoresFrom(Store(buf, stores[n][1], stores[n][2]), stores, n + 1)

ApplyStores(buf, stores) == ApplyStoresFrom(buf, stores, 1)

\* the element-by-element loop runs while k <= local_inner
ScalarLoop_OffByOne(data, input_ptr, result_ptr, local_inner) ==
    [k \in 1..(local_inner + 1) |-> <<result_ptr + (k - 1), Load(data, input_ptr + (k - 1))>>]

\* lines 47-49: for (k = 0; k < local_inner; k++) result_ptr[k] = input_ptr[k]
ScalarLoop(data, input_ptr, result_ptr, local_inner) ==
    [k \in 1..local_inner |-> <<result_ptr + (k - 1), Load(data, input_ptr + (k - 1))>>]

\* Vec::loadu(ptr, count): the first count lanes from memory
VecLoadu(data, ptr, count) == [l \in 1..count |-> Load(data, ptr + (l - 1))]

\* Vec::store(ptr, count): the first count lanes to memory
VecStore(vec, ptr, count) == [l \in 1..count |-> <<ptr + (l - 1), vec[l]>>]

\* vec256::map(f, output_data, input_data, size) with f the identity: whole
\* vectors while size - (size % Vec::size()) is not reached, then the
\* remaining size - i elements as one partial vector
RECURSIVE VecMapFrom(_, _, _, _, _, _)
VecMapFrom(i, data, input_data, output_data, size, W) ==
    IF i < size - (size % W)
    THEN VecStore(VecLoadu(data, input_data + i, W), output_data + i, W)
         \o VecMapFrom(i + W, data, input_data, output_data, size, W)
    ELSE IF size - i > 0
         THEN VecStore(VecLoadu(data, input_data + i, size - i), output_data + i, size - i)
         ELSE <<>>

\* lines 51-55
VecMap(data, input_ptr, result_ptr, local_inner) ==
    VecMapFrom(0, data, input_ptr, result_ptr, local_inner, VecSize(scalar_type))

\* the running write cursor is not advanced after a run
SeqAdvance_Stuck(T) == T.result_ptr

\* line 57: result_ptr += local_inner
SeqAdvance(T) == T.result_ptr + T.local_inner

\* the stores <<position, value>> of a run as history entries <<position, i, j>>
Stored(stores, T) == {<<stores[n][1], T.i, T.j>> : n \in DOMAIN stores}

\* lines 47-49 and 57: the element-by-element loop over one input's run
SeqScalarLoop ==
    /\ pc = "running"
    /\ variant = "sequential"
    /\ tasks[1].pc = "scalar"
    /\ \E T \in {tasks[1]} :
       \E st \in {ScalarLoop(InputData(T.j), T.input_ptr, T.result_ptr, T.local_inner)} :
          /\ result' = ApplyStores(result, st)
          /\ writes' = writes \cup Stored(st, T)
          /\ tasks' = <<[T EXCEPT !.result_ptr = SeqAdvance(T), !.j = T.j + 1, !.pc = "input"]>>
    /\ UNCHANGED <<variant, scalar_type, tensors, result_group, result_numel,
                   pc, outer, adjusted_grain_size, inputs, starts, visits, cursors, evals>>
    /\ UNCHANGED <<dictVars, loop>>

\* lines 51-55 and 57: the vectorized move of one input's run
SeqVecMap ==
    /\ pc = "running"
    /\ variant = "sequential"
    /\ tasks[1].pc = "vec"
    /\ \E T \in {tasks[1]} :
       \E st \in {VecMap(InputData(T.j), T.input_ptr, T.result_ptr, T.local_inner)} :
          /\ result' = ApplyStores(result, st)
          /\ writes' = writes \cup Stored(st, T)
          /\ tasks' = <<[T EXCEPT !.result_ptr = SeqAdvance(T), !.j = T.j + 1, !.pc = "input"]>>
    /\ UNCHANGED <<variant, scalar_type, tensors, result_group, result_numel,
                   pc, outer, adjusted_grain_size, inputs, starts, visits, cursors, evals>>
    /\ UNCHANGED <<dictVars, loop>>

NextCat ==
    \/ Call
    \/ ParallelFor
    \/ \E t \in 1..MaxThreads : Enter(t)
    \/ \E t \in 1..MaxThreads : Memcpy(t)
    \/ Join
    \/ SeqCall
    \/ SeqLoopOuter
    \/ SeqLoopInput
    \/ SeqScalarLoop
    \/ SeqVecMap

Spec == Init /\ [][NextCat]_vars

\* Every thread that can take a step eventually takes one: no invocation of
\* the loop body is suspended for ever.
FairSpec == Spec /\ WF_vars(NextCat)

(***************************************************************************)
(* The counter of the sequential variant's outer loop, part_001 line 39:   *)
(*     for (auto i = 0; i < outer; ++i)                                    *)
(* i has the type of the literal 0, int; outer is an int64_t.  The body    *)
(* changes neither.  The widths are scaled down: int holds                 *)
(* -IntMax-1 .. IntMax, and outer is any count up to MaxOuterCount, which  *)
(* an int64_t holds.                                                       *)
(***************************************************************************)
\* the largest value of an int
IntMax == 7
\* the largest outer count looked at
MaxOuterCount == 10
\* the largest number of runs of the body followed
MaxBodyRuns == 20

IntMin == 0 - IntMax - 1

\* the call starts the loop: i = 0
InitLoop ==
    /\ CatIdle
    /\ InitDict
    /\ \E o \in 0..MaxOuterCount :
          loop = [i |-> 0, outer |-> o, pc |-> "test", seen |-> <<>>, wide |-> FALSE]

\* i < outer: the int is converted to int64_t, which keeps its value
LoopTest(L) == L.i < L.outer

\* ++i on an int. At the largest int the addition overflows, which is
\* undefined for a signed type: the build may wrap to the smallest int, may
\* keep the counter in a 64-bit register (the optimizer may assume that no
\* overflow happens and widen the induction variable), or may trap.
PlusPlus(L) ==
    IF L.i < IntMax \/ L.wide
    THEN {[L EXCEPT !.i = L.i + 1, !.pc = "test"]}
    ELSE {[L EXCEPT !.i = IntMin, !.pc = "test"],
          [L EXCEPT !.i = L.i + 1, !.wide = TRUE, !.pc = "test"],
          [L EXCEPT !.pc = "trapped"]}

\* line 39, the test: the body runs with i, or the loop ends (line 59)
CounterTest ==
    /\ loop.pc = "test"
    /\ IF LoopTest(loop)
       THEN /\ Len(loop.seen) < MaxBodyRuns
            /\ loop' = [loop EXCEPT !.pc = "body", !.seen = Append(@, loop.i)]
       ELSE loop' = [loop EXCEPT !.pc = "done"]
    /\ UNCHANGED <<catVars, dictVars>>

\* lines 40-58 (the body, which leaves i and outer alone) and then ++i
CounterIncrement ==
    /\ loop.pc = "body"
    /\ loop' \in PlusPlus(loop)
    /\ UNCHANGED <<catVars, dictVars>>

NextLoop == CounterTest \/ CounterIncrement

SpecLoop == InitLoop /\ [][NextLoop]_vars

(***************************************************************************)
(* ModuleDictImpl, moduledict.h.                                           *)
(*                                                                         *)
(* A Module object is its identity, a number; heap holds the objects       *)
(* allocated so far.  An OrderedDict is the sequence of its items          *)
(* [key, value] in insertion order.                                        *)
(***************************************************************************)
\* the keys used; "" is a name register_module rejects
Keys == {"A", "B", ""}

\* largest number of Module objects allocated
MaxModules == 2

\* largest number of entries of the OrderedDict given to a constructor
MaxEntries == 2

\* OrderedDict::contains
OD_contains(d, key) == \E n \in DOMAIN d : d[n].key = key

\* OrderedDict::size and OrderedDict::is_empty
OD_size(d) == Len(d)
OD_is_empty(d) == d = <<>>

\* OrderedDict::operator[] on a contained key
OD_at(d, key) == d[CHOOSE n \in DOMAIN d : d[n].key = key].value

\* OrderedDict::insert: throws when the key is already defined, and appends
\* the item otherwise
OD_insert(d, key, value) ==
    IF OD_contains(d, key)
    THEN [dict |-> d, threw |-> TRUE]
    ELSE [dict |-> Append(d, [key |-> key, value |-> value]), threw |-> FALSE]

\* OrderedDict::erase of a contained key: the other items keep their order
OD_erase(d, key) == SelectSeq(d, LAMBDA item : item.key # key)

\* OrderedDict::keys
OD_keys(d) == [n \in DOMAIN d |-> d[n].key]

\* Module::register_module: throws when the name is empty or contains a dot,
\* or when a submodule of that name is registered already
register_module(children, name, module) ==
    IF name = "" THEN [dict |-> children, threw |-> TRUE]
    ELSE OD_insert(children, name, module)

\* insert stores nothing in modules_ and only registers the module
insert_RegisterOnly(D, key, module) ==
    LET r == register_module(D.children_, key, module)
    IN [modules_ |-> D.modules_, children_ |-> r.dict,
        status |-> IF r.threw THEN "threw" ELSE "ok"]

\* lines 111-115, insert(std::string key, std::shared_ptr<Module> module):
\* modules_.insert(key, module), then register_module(key, modules_[key]).
\* D is [modules_, children_, status].
insert(D, key, module) ==
    LET m == OD_insert(D.modules_, key, module)
    IN IF m.threw
       THEN [D EXCEPT !.status = "threw"]
       ELSE LET r == register_module(D.children_, key, OD_at(m.dict, key))
            IN [modules_ |-> m.dict, children_ |-> r.dict,
                status |-> IF r.threw THEN "threw" ELSE "ok"]

\* lines 119-122, insert(key, const ModuleHolder<M>&): the holder's pointer
insert_holder(D, key, holder_ptr) == insert(D, key, holder_ptr)

\* lines 127-131, insert(key, M&& module): the module is moved or copied
\* into a new object, fresh
insert_value(D, key, fresh) == insert(D, key, fresh)

insert_by(overload, D, key, module) ==
    IF overload = "holder" THEN insert_holder(D, key, module)
    ELSE IF overload = "value" THEN insert_value(D, key, module)
    ELSE insert(D, key, module)

Overloads == {"shared_ptr", "holder", "value"}

\* What a caller passed to insert under a key: with a shared_ptr or a
\* ModuleHolder, the object pointed to; with a Module value (lines 127-131)
\* the caller's own object, which is none of the shared objects (written
\* 0 - n), and boxed, the object make_shared made of it.
Passed(overload, key, module) ==
    [key |-> key,
     module |-> IF overload = "value" THEN 0 - module ELSE module,
     boxed |-> IF overload = "value" THEN module ELSE 0]

\* the history after modules_ took a module under key
Give(g, overload, key, module) ==
    {e \in g : e.key # key} \cup {Passed(overload, key, module)}

\* the null pointer
nullptr == 0

\* the module types used as T; the dynamic type of object m
Types == {"M", "N"}
TypeOf(m) == IF m % 2 = 1 THEN "M" ELSE "N"

\* Module::as<T>() and std::dynamic_pointer_cast<T>: the object when its
\* dynamic type is T, and the null pointer otherwise
as(m, T) == IF m # nullptr /\ TypeOf(m) = T THEN m ELSE nullptr

\* ptr(key) yields the module of the first entry
ptr_First(key) == modules_[1].value

\* lines 201-203, operator[](key): modules_[key]
operator_index(key) == OD_at(modules_, key)

\* lines 208-210, ptr(key): modules_[key]
ptr(key) == OD_at(modules_, key)

\* lines 215-221, ptr<T>(key): dynamic_pointer_cast<T>(modules_[key])
ptr_T(key, T) == as(OD_at(modules_, key), T)

\* lines 185-196, get<T>(key): *modules_[key]->as<T>(), as the set of the
\* objects the reference returned may denote; the dereference of a null
\* pointer is undefined
get(key, T) ==
    IF as(OD_at(modules_, key), T) = nullptr
    THEN heap \cup {nullptr}
    ELSE {as(OD_at(modules_, key), T)}

\* keys() and values(), lines 143-150
keys == OD_keys(modules_)
values == [n \in DOMAIN modules_ |-> modules_[n].value]

\* size() and empty(), lines 173-180
size == OD_size(modules_)
empty == OD_is_empty(modules_)

ThisDict == [modules_ |-> modules_, children_ |-> children_, status |-> "ok"]

\* the object a new allocation yields
Fresh == Cardinality(heap) + 1

\* line 58: ModuleDictImpl() = default
DefaultConstruct ==
    /\ constructed = "no"
    /\ constructed' = "yes"
    /\ modules_' = <<>>
    /\ children_' = <<>>
    /\ last' = Op("construct", "default", "", "ok", 0, FALSE, 0, 0)
    /\ given' = {}
    /\ UNCHANGED heap
    /\ UNCHANGED <<catVars, loop>>

\* the constructors' loops, lines 66-68, 74-76 and 83-85: insert(pair.key(),
\* pair.value()) for the pairs of the OrderedDict from the n-th on; an insert
\* that throws ends the constructor
RECURSIVE ConstructLoop(_, _, _, _)
ConstructLoop(D, overload, pairs, n) ==
    IF n > Len(pairs) \/ D.status = "threw" THEN D
    ELSE ConstructLoop(insert_by(overload, D, pairs[n].key, pairs[n].value),
                       overload, pairs, n + 1)

\* the ordered dicts of distinct keys given to a constructor; the module of
\* the n-th pair is object n (for the Module overload, the copy made of it)
RECURSIVE KeyLists(_)
KeyLists(n) ==
    IF n = 0 THEN {<<>>}
    ELSE KeyLists(n - 1) \cup
         {Append(ks, k) : ks \in {l \in KeyLists(n - 1) : Len(l) = n - 1},
                          k \in Keys}

InitDicts ==
    {[n \in DOMAIN ks |-> [key |-> ks[n], value |-> n]] :
        ks \in {l \in KeyLists(MaxEntries) :
                  \A a \in DOMAIN l, b \in DOMAIN l : a # b => l[a] # l[b]}}

\* lines 60-86: the constructors from an OrderedDict of shared_ptr<M>, of
\* Module, or of ModuleHolder<M>
ConstructFrom(pairs, overload) ==
    /\ constructed = "no"
    /\ \E D \in {ConstructLoop([modules_ |-> <<>>, children_ |-> <<>>, status |-> "ok"],
                               overload, pairs, 1)} :
          /\ constructed' = IF D.status = "ok" THEN "yes" ELSE "failed"
          /\ modules_' = D.modules_
          /\ children_' = D.children_
          /\ last' = Op("construct", overload, "", D.status, 0, FALSE, Len(pairs), 0)
          /\ given' = {Passed(overload, pairs[n].key, pairs[n].value) :
                          n \in {a \in DOMAIN pairs : OD_contains(D.modules_, pairs[a].key)}}
    /\ heap' = 1..Len(pairs)
    /\ UNCHANGED <<catVars, loop>>

\* insert(key, module) with a shared_ptr or a ModuleHolder: the module is an
\* object of the caller's, new or one already held
InsertPointer(key, module, overload) ==
    /\ constructed = "yes"
    /\ overload \in {"shared_ptr", "holder"}
    /\ module \in heap \cup {Fresh}
    /\ module <= MaxModules
    /\ \E D \in {insert_by(overload, ThisDict, key, module)} :
          /\ modules_' = D.modules_
          /\ children_' = D.children_
          /\ last' = Op("insert", overload, key, D.status, size,
                        OD_contains(modules_, key), 0, 0)
          /\ given' = IF OD_contains(modules_, key) THEN given
                       ELSE Give(given, overload, key, module)
    /\ heap' = heap \cup {module}
    /\ UNCHANGED constructed
    /\ UNCHANGED <<catVars, loop>>

\* insert(key, module) with a Module value
InsertValue(key) ==
    /\ constructed = "yes"
    /\ Fresh <= MaxModules
    /\ \E D \in {insert_by("value", ThisDict, key, Fresh)} :
          /\ modules_' = D.modules_
          /\ children_' = D.children_
          /\ last' = Op("insert", "value", key, D.status, size,
                        OD_contains(modules_, key), 0, 0)
          /\ given' = IF OD_contains(modules_, key) THEN given
                       ELSE Give(given, "value", key, Fresh)
    /\ heap' = heap \cup {Fresh}
    /\ UNCHANGED constructed
    /\ UNCHANGED <<catVars, loop>>

\* pop returns the module and leaves it in modules_
pop_NoErase(D, key) ==
    IF ~OD_contains(D.modules_, key)
    THEN [modules_ |-> D.modules_, children_ |-> D.children_, status |-> "threw",
          returned |-> 0]
    ELSE [modules_ |-> D.modules_, children_ |-> D.children_,
          status |-> "ok", returned |-> OD_at(D.modules_, key)]

\* lines 136-140, pop(key): v = modules_[key], which throws when the key is
\* not contained; modules_.erase(key); return v
pop(D, key) ==
    IF ~OD_contains(D.modules_, key)
    THEN [modules_ |-> D.modules_, children_ |-> D.children_, status |-> "threw",
          returned |-> 0]
    ELSE [modules_ |-> OD_erase(D.modules_, key), children_ |-> D.children_,
          status |-> "ok", returned |-> OD_at(D.modules_, key)]

Pop(key) ==
    /\ constructed = "yes"
    /\ \E D \in {pop(ThisDict, key)} :
          /\ modules_' = D.modules_
          /\ children_' = D.children_
          /\ last' = Op("pop", "none", key, D.status, size,
                        OD_contains(modules_, key), 0, D.returned)
          /\ given' = IF D.status = "ok" THEN {e \in given : e.key # key} ELSE given
    /\ UNCHANGED <<heap, constructed>>
    /\ UNCHANGED <<catVars, loop>>

NextDict ==
    \/ DefaultConstruct
    \/ \E pairs \in InitDicts, overload \in Overloads : ConstructFrom(pairs, overload)
    \/ \E key \in Keys, module \in 1..MaxModules, overload \in {"shared_ptr", "holder"} :
          InsertPointer(key, module, overload)
    \/ \E key \in Keys : InsertValue(key)
    \/ \E key \in Keys : Pop(key)

SpecDict == InitModuleDict /\ [][NextDict]_vars

(***************************************************************************)
(* Properties of the kernel.                                               *)
(***************************************************************************)
\* the inputs' inner sizes sum to the result's size(dim) * stride(dim)
ShapesCompatible == SumSeq([p \in 1..ninputs |-> LocalInner(p - 1)]) = result_group

\* the sum of the inner sizes of the inputs before list position j
Prefix(j) == SumSeq([p \in 1..j |-> LocalInner(p - 1)])

\* the positions of the result, and of input j
ResultPositions == 0..(Len(result) - 1)
InputPositions(j) == 0..(Len(tensors[j + 1].data) - 1)

\* C1 (reconstruction): once the kernel has returned on inputs whose inner
\* sizes sum to the output group stride, for every outer index i, input j and
\* k below inner_size[j], the output element at i*output_group_stride +
\* (sum of the inner sizes before j) + k is the input element j[i*inner_size[j] + k].
C1_Reconstruction ==
    (pc = "done" /\ ShapesCompatible) =>
        \A i \in 0..(outer - 1), j \in 0..(ninputs - 1) :
            \A k \in 0..(LocalInner(j) - 1) :
                LET o == i * result_group + Prefix(j) + k
                    s == i * LocalInner(j) + k
                IN /\ o \in ResultPositions
                   /\ s \in InputPositions(j)
                   /\ result[o + 1] = tensors[j + 1].data[s + 1]

\* a finished call of the parallel variant that ran two tasks over two
\* non-empty inputs
C1_Witness ==
    /\ pc = "done" /\ variant = "parallel" /\ ShapesCompatible
    /\ Len(tasks) = 2 /\ ninputs = 2 /\ outer >= 2
    /\ \A j \in 0..(ninputs - 1) : LocalInner(j) > 0

\* C2 (disjointness and exact cover): no position is ever stored to by two
\* different (outer index, input index) pairs, and when the kernel has
\* returned every position of [0, outer*output_group_stride) has been stored
\* to by exactly one pair.
C2_DisjointExactCover ==
    /\ \A w1 \in writes, w2 \in writes : w1[1] = w2[1] => w1 = w2
    /\ (pc = "done" /\ ShapesCompatible) =>
           \A o \in 0..(outer * result_group - 1) :
               Cardinality({w \in writes : w[1] = o}) = 1

\* a finished call of the sequential variant over several outer groups of
\* two non-empty inputs
C2_Witness ==
    /\ pc = "done" /\ variant = "sequential" /\ ShapesCompatible
    /\ ninputs = 2 /\ outer = MaxOuter
    /\ \A j \in 0..(ninputs - 1) : LocalInner(j) > 0
    /\ Cardinality(writes) = outer * result_group

\* memcpy(output_ptr, input_ptr, nbytes) as a whole
RECURSIVE MemcpyAll(_, _, _)
MemcpyAll(buf, T, k) ==
    IF k * SizeOf(scalar_type) >= T.nbytes THEN buf
    ELSE MemcpyAll(Store(buf, T.output_ptr + k, Load(tensors[T.j + 1].data, T.input_ptr + k)),
                   T, k + 1)

\* the body of loop_nd's inner loop from tensor j on, run without interruption
RECURSIVE RunTensors(_, _)
RunTensors(buf, T) ==
    IF T.j >= ninputs THEN buf
    ELSE LET li == LocalInner(T.j)
             U == [T EXCEPT !.local_inner = li, !.input_ptr = InputStart(T, li),
                            !.nbytes = MemcpyBytes(li)]
         IN RunTensors(MemcpyAll(buf, U, 0),
                       [U EXCEPT !.output_ptr = AdvanceOutput(U), !.j = U.j + 1])

\* loop_nd(start, end) run as one task without interruption
RECURSIVE RunLoopNd(_, _)
RunLoopNd(buf, T) ==
    IF T.i >= T.end THEN buf
    ELSE RunLoopNd(RunTensors(buf, [T EXCEPT !.output_ptr = OutputStart(T), !.j = 0]),
                   [T EXCEPT !.i = NextIndex(T)])

\* the result's buffer before the call
InitialResult == [p \in 1..Len(result) |-> Garbage]

\* C3 (degree-of-parallelism invariance): whatever the split of [0, outer)
\* into tasks and whatever the interleaving of their element copies, the
\* final output is the output of the single task loop_nd(0, outer) run on
\* its own.
C3_ParallelismInvariance ==
    (pc = "done" /\ variant = "parallel") =>
        result = RunLoopNd(InitialResult, NewTask([start |-> 0, end |-> outer]))

\* a finished call whose range was split into single-index tasks
C3_Witness ==
    /\ pc = "done" /\ variant = "parallel" /\ ShapesCompatible
    /\ Len(tasks) = 2 /\ outer = 2 /\ result_group >= 2
    /\ \A t \in DOMAIN tasks : tasks[t].end - tasks[t].start = 1

\* C4 as stated (order preservation): in every outer group, the output
\* offset at which input j's run starts is strictly greater than the offset
\* at which input j-1's run starts.
C4_StrictOrder ==
    \A a \in starts, b \in starts :
        (a[1] = b[1] /\ a[2] = b[2] + 1) => a[3] > b[3]

\* C4 amended: in every outer group, the output offset at which input j's
\* run starts is not less than the offset at which input j-1's run starts,
\* and it is strictly greater whenever input j-1 has a non-zero inner size.
C4_OrderPreserved ==
    \A a \in starts, b \in starts :
        (a[1] = b[1] /\ a[2] = b[2] + 1) =>
            /\ a[3] >= b[3]
            /\ LocalInner(b[2]) > 0 => a[3] > b[3]

\* the runs of two non-empty inputs have been started in the last outer group
C4_Witness ==
    /\ ninputs = 2 /\ outer >= 2
    /\ LocalInner(0) > 0 /\ LocalInner(1) > 0
    /\ \E a \in starts, b \in starts :
          a[1] = outer - 1 /\ b[1] = outer - 1 /\ a[2] = 1 /\ b[2] = 0

\* the outer indices of a task's sub-range
Range(T) == T.start..(T.end - 1)

\* C5: the sub-ranges loop_nd is invoked on are pairwise disjoint and their
\* union is [0, outer), and when the kernel has returned the loop body has
\* run exactly once for every outer index of [0, outer) and for no other.
C5_RangesPartition ==
    (variant = "parallel" /\ pc \in {"running", "done"}) =>
        /\ \A t \in DOMAIN tasks, u \in DOMAIN tasks :
               t # u => Range(tasks[t]) \cap Range(tasks[u]) = {}
        /\ UNION {Range(tasks[t]) : t \in DOMAIN tasks} = 0..(outer - 1)
        /\ pc = "done" =>
               \A i \in DOMAIN visits : visits[i] = IF i < outer THEN 1 ELSE 0

\* a finished call whose range of three indices was split in two
C5_Witness ==
    /\ pc = "done" /\ variant = "parallel"
    /\ outer = 3 /\ Len(tasks) = 2
    /\ tasks[1].end - tasks[1].start = 2

\* C6 (scalar/vector path equivalence): for every run the sequential
\* variant is about to copy, of any inner size, the element-by-element loop
\* and the vectorized move store to the same positions, exactly the n
\* positions from the write cursor on, and leave the same buffer.
C6_PathsEquivalent ==
    (variant = "sequential" /\ pc = "running" /\ tasks[1].pc \in {"scalar", "vec"}) =>
        LET T == tasks[1]
            sc == ScalarLoop(tensors[T.j + 1].data, T.input_ptr, T.result_ptr, T.local_inner)
            ve == VecMap(tensors[T.j + 1].data, T.input_ptr, T.result_ptr, T.local_inner)
        IN /\ {sc[n][1] : n \in DOMAIN sc} = T.result_ptr..(T.result_ptr + T.local_inner - 1)
           /\ {ve[n][1] : n \in DOMAIN ve} = T.result_ptr..(T.result_ptr + T.local_inner - 1)
           /\ Len(sc) = T.local_inner
           /\ Len(ve) = T.local_inner
           /\ ApplyStores(result, sc) = ApplyStores(result, ve)

\* a run of more than one whole vector plus a remainder is about to be moved
C6_Witness ==
    /\ variant = "sequential" /\ pc = "running" /\ tasks[1].pc = "vec"
    /\ tasks[1].local_inner > VecSize(scalar_type)
    /\ tasks[1].local_inner % VecSize(scalar_type) # 0
    /\ tasks[1].i > 0

\* C7 (frame): the kernel never stores to an input buffer and never stores
\* outside [0, outer*output_group_stride): every input holds what it held
\* before the call, every store is to a position of the result, and the
\* result has the size it had.
C7_Frame ==
    /\ \A p \in 1..ninputs :
           tensors[p].data = [idx \in 1..Len(tensors[p].data) |-> InputValue(p - 1, idx - 1)]
    /\ \A w \in writes : w[1] \in 0..(outer * result_group - 1)
    /\ Len(result) = result_numel

\* a finished call that stored to every position of a non-empty result
C7_Witness ==
    /\ pc = "done" /\ ShapesCompatible /\ result_numel > 0
    /\ Cardinality(writes) = result_numel

\* valid inputs: compatible shapes and a result of non-zero extent along dim
ValidCall == ShapesCompatible /\ result_group > 0

\* every element of outer index i has been stored
Copied(i) ==
    \A j \in 0..(ninputs - 1) : \A k \in 0..(LocalInner(j) - 1) :
        <<i * result_group + Prefix(j) + k, i, j>> \in writes

C9_EmptyListNoOp ==
    ninputs = 0 =>
        /\ pc # "crashed"
        /\ writes = {}
        /\ result = InitialResult

Held(e) == IF e.boxed # nullptr THEN e.boxed ELSE e.module

\* every key held has its entry in the history
GivenCoversKeys == \A n \in DOMAIN modules_ : \E e \in given : e.key = modules_[n].key

\* C11 as stated (lookup identity): for every contained key, get<T>(key),
\* ptr(key), ptr<T>(key) and operator[](key), with T the module's type, all
\* refer to the very object the caller passed to insert under that key, not
\* to a copy of it, whatever was inserted under other keys afterwards.
C11_VeryObjectPassed ==
    constructed = "yes" =>
        /\ GivenCoversKeys
        /\ \A e \in given : OD_contains(modules_, e.key) =>
               \E T \in {TypeOf(Held(e))} :
                  /\ get(e.key, T) = {e.module}
                  /\ ptr(e.key) = e.module
                  /\ ptr_T(e.key, T) = e.module
                  /\ operator_index(e.key) = e.module

\* C11 (lookup identity, amended): for every contained key, get<T>(key) and
\* ptr<T>(key) with T the type of the module held, ptr(key) and
\* operator[](key) all refer to one and the same object: the object a
\* shared_ptr or ModuleHolder passed to insert pointed to, or the new object
\* that insert moved or copied a module passed by value into. Inserts and
\* pops of other keys do not change this.
C11_Lookup ==
    constructed = "yes" =>
        /\ GivenCoversKeys
        /\ \A e \in given : OD_contains(modules_, e.key) =>
               \E T \in {TypeOf(Held(e))} :
                  /\ get(e.key, T) = {Held(e)}
                  /\ ptr(e.key) = Held(e)
                  /\ ptr_T(e.key, T) = Held(e)
                  /\ operator_index(e.key) = Held(e)

\* two keys are held, one inserted by pointer and then one by value, with
\* different objects
C11_Witness ==
    /\ constructed = "yes" /\ Len(modules_) = 2
    /\ last.op = "insert" /\ last.overload = "value" /\ last.status = "ok"
    /\ \E a \in given, b \in given :
          /\ a.boxed = nullptr /\ b.boxed # nullptr /\ b.key = last.key
          /\ ptr(a.key) = a.module /\ ptr(b.key) = b.boxed
          /\ ptr(a.key) # ptr(b.key)

(***************************************************************************)
(* Properties of pop.                                                      *)
(***************************************************************************)
\* the entries under the keys other than key are the same, in the same
\* order, before and after a step
OthersUnchanged(key) ==
    /\ \A k \in Keys \ {key} :
          /\ OD_contains(modules_', k) = OD_contains(modules_, k)
          /\ OD_contains(modules_, k) => ptr(k)' = ptr(k)
    /\ SelectSeq(keys', LAMBDA k : k # key) = SelectSeq(keys, LAMBDA k : k # key)

\* what a call pop(key) brings about
PopEffect(key) ==
    IF \E n \in DOMAIN keys : keys[n] = key
    THEN /\ last'.status = "ok"
         /\ \E e \in given : e.key = key /\ last'.returned = Held(e)
         /\ \A n \in DOMAIN keys' : keys'[n] # key
         /\ size' = size - 1
         /\ OthersUnchanged(key)
    ELSE /\ last'.status = "threw"
         /\ modules_' = modules_
         /\ children_' = children_

\* C12 (pop): pop(key) on a contained key returns the module stored under
\* that key, and afterwards the key is not in keys(), size() is one less and
\* every other entry is as it was; pop(key) on a key that is not contained
\* throws and leaves the ModuleDict as it was.
C12_Pop == [][\A key \in Keys : Pop(key) => PopEffect(key)]_vars

\* a pop of a contained key has returned and left another entry behind
C12_Witness ==
    /\ last.op = "pop" /\ last.status = "ok" /\ last.contained_before
    /\ last.returned # nullptr
    /\ size = 1 /\ last.size_before = 2

(***************************************************************************)
(* Properties of the write cursor, the partition parameters and the grain. *)
(***************************************************************************)
\* C13 (write-cursor invariant): on inputs whose inner sizes sum to the
\* output group stride, in both variants, the write cursor is
\* i*output_group_stride when the copy of outer index i begins and
\* (i+1)*output_group_stride when the last input of outer index i has been
\* copied, whether the cursor is recomputed for every outer index (parallel
\* variant) or carried on across the outer indices (sequential variant).
C13_WriteCursor ==
    ShapesCompatible =>
        \A c \in cursors :
            /\ c[2] = "begin" => c[3] = c[1] * result_group
            /\ c[2] = "end" => c[3] = (c[1] + 1) * result_group

\* the sequential variant has returned after carrying its cursor over every
\* outer index of two non-empty inputs
C13_Witness ==
    /\ pc = "done" /\ variant = "sequential" /\ ShapesCompatible
    /\ ninputs = 2 /\ outer = MaxOuter
    /\ \A j \in 0..(ninputs - 1) : LocalInner(j) > 0
    /\ \A i \in 0..(outer - 1) :
          /\ <<i, "begin", i * result_group>> \in cursors
          /\ <<i, "end", (i + 1) * result_group>> \in cursors

\* C14 (partition parameters computed once): the outer count, the output
\* group stride and every input's inner size are computed exactly once in a
\* call, before the copy loop starts, and no task computes any of them
\* inside the body of the loop over the outer indices.
C14_ComputedOnce ==
    /\ \A p \in 1..ninputs : evals.inside[p] = 0
    /\ evals.outer <= 1 /\ evals.output_stride <= 1
    /\ \A p \in 1..ninputs : evals.before[p] <= 1
    /\ pc = "running" =>
          /\ evals.outer = 1 /\ evals.output_stride = 1
          /\ \A p \in 1..ninputs : evals.before[p] = 1

\* the parallel variant has computed its grain for a non-empty result
GrainComputed ==
    variant = "parallel" /\ pc \in {"dispatch", "running", "done"} /\ result_group >= 1

\* C15 as stated (grain size): the grain given to parallel_for,
\* GRAIN_SIZE div output_group_stride, is at least 1 for every output group
\* stride of at least 1.
C15_GrainAtLeastOne == GrainComputed => adjusted_grain_size >= 1

\* C15 (grain size, amended): for every output group stride of at least 1
\* the grain given to parallel_for is the quotient GRAIN_SIZE div
\* output_group_stride, which is never negative, is at least 1 exactly when
\* the stride is at most GRAIN_SIZE, and is 0 for every larger stride.
C15_Grain ==
    GrainComputed =>
        /\ ParallelForArgs.grain_size = adjusted_grain_size
        /\ adjusted_grain_size >= 0
        /\ adjusted_grain_size * result_group <= GRAIN_SIZE
        /\ (adjusted_grain_size + 1) * result_group > GRAIN_SIZE
        /\ adjusted_grain_size >= 1 <=> result_group <= GRAIN_SIZE
        /\ result_group > GRAIN_SIZE => adjusted_grain_size = 0

\* a call whose output group stride exceeds GRAIN_SIZE runs its copy loop
\* under a grain of 0, split into two tasks
C15_Witness ==
    /\ GrainComputed /\ pc = "running" /\ ShapesCompatible
    /\ result_group > GRAIN_SIZE /\ adjusted_grain_size = 0
    /\ Len(tasks) = 2

(***************************************************************************)
(* Properties of the counter of the sequential variant's outer loop.       *)
(***************************************************************************)
\* C16 (loop counter): for every 64-bit outer count, also those above the
\* largest int, the counter i of the sequential variant's outer loop is
\* never incremented past what its type holds, the body runs with the
\* values 0, 1, 2, ... in increasing order, each below outer and each
\* once, and when the loop has ended the body has run with every value of
\* [0, outer).
C16_CounterCoversRange ==
    /\ loop.pc # "trapped"
    /\ ~loop.wide
    /\ \A n \in DOMAIN loop.seen : loop.seen[n] = n - 1 /\ loop.seen[n] < loop.outer
    /\ loop.pc = "done" => Len(loop.seen) = loop.outer

(***************************************************************************)
(* Properties of the registration of the ModuleDict's modules.             *)
(***************************************************************************)
\* the names registered as submodules of the ModuleDict
RegisteredNames == {children_[n].key : n \in DOMAIN children_}

\* C17 (registration invariant): after any sequence of insert and pop
\* operations on a constructed ModuleDict, the set of the keys in keys() is
\* the set of the names registered as its submodules, and the submodule
\* registered under each name is the module the dict returns for that key.
C17_Registration ==
    constructed = "yes" =>
        /\ {keys[n] : n \in DOMAIN keys} = RegisteredNames
        /\ \A name \in RegisteredNames :
              OD_contains(modules_, name) => OD_at(children_, name) = ptr(name)
====
